---- MODULE Spec2Model ----
(***************************************************************************)
(* Model of the interactive session controller of kyc_cli.py               *)
(* (class KYCAgentCLI): startup (check_api_key, show_welcome,              *)
(* initialize_agent), the main loop of run(), process_command, query_agent *)
(* and the finally block that disconnects.                                 *)
(*                                                                         *)
(* Strings are sequences of one-character strings, so that strip(),        *)
(* concatenation, slicing and substring tests are computed.                *)
(*                                                                         *)
(* The program has one thread of control; pc is the place where it is      *)
(* suspended:                                                              *)
(*   "start"    before run() has executed anything                         *)
(*   "init"     awaiting self.agent.connect()            (line 68)         *)
(*   "input"    inside Prompt.ask of the main loop       (line 394)        *)
(*   "query"    awaiting self.agent.query(...)           (line 306)        *)
(*   "stream"   awaiting the next message of the stream  (line 312)        *)
(*   "confirm"  inside Prompt.ask of the exit question   (line 405)        *)
(*   "finally"  at the finally block of run()            (line 413)        *)
(*   "exited"   the process has terminated                                 *)
(* The remote agent service is the environment: it accepts query(), emits  *)
(* the messages of each response in order, followed by one ResultMessage,  *)
(* into the connection, from which receive_response() reads.               *)
(* An interrupt is a KeyboardInterrupt raised at the point where the       *)
(* program is suspended, as the handlers of run() expect.                  *)
(***************************************************************************)
EXTENDS Integers, Sequences, FiniteSets, TLC

\* ---- bounds of the model ----
MaxQueries == 2     \* query() calls in one run
MaxMsgs == 2        \* messages of one response before its ResultMessage
MaxStream == 1      \* messages in flight in the connection
MaxConfirms == 1    \* exit questions asked in one run

\* ---- program constants ----
PreviewLimit == 200

Rep(c, n) == [i \in 1..n |-> c]

\* ---- strings the program compares against ----
QUIT == <<"/", "q", "u", "i", "t">>
EXIT == <<"/", "e", "x", "i", "t">>
Q == <<"/", "q">>
HELP == <<"/", "h", "e", "l", "p">>
LIST == <<"/", "l", "i", "s", "t">>
STATUS == <<"/", "s", "t", "a", "t", "u", "s">>
DEBUG == <<"/", "d", "e", "b", "u", "g">>
CLEAR == <<"/", "c", "l", "e", "a", "r">>

\* Lines the user can type at the main prompt (Prompt.ask returns the
\* default "" for an empty line).
Lines ==
  { QUIT, EXIT, Q, HELP, LIST, STATUS, DEBUG, CLEAR,
    <<>>, <<" ", " ">>, <<" ">> \o Q \o <<" ">>,
    <<"h", "i">>, <<"/", "x">>,
    <<"/", "Q", "u", "i", "t">>, <<"/", "q", "u">>, <<"/">>,
    <<"/", "h", "e", "l", "p", "s">>, <<"/", "q", " ", "x">>,
    <<"d", "e", "b", "u", "g">> }

\* str.strip(): leading and trailing whitespace removed.
RECURSIVE LStrip(_)
LStrip(s) == IF s /= <<>> /\ Head(s) = " " THEN LStrip(Tail(s)) ELSE s

RECURSIVE RStrip(_)
RStrip(s) ==
  IF s /= <<>> /\ s[Len(s)] = " " THEN RStrip(SubSeq(s, 1, Len(s) - 1)) ELSE s

Strip(s) == RStrip(LStrip(s))

\* Variant of Dispatch that takes a line starting with /q for a quit token.
Dispatch_Prefix(user_input) ==
  LET s == Strip(user_input) IN
  IF s = <<>> THEN "noop"
  ELSE IF s \in {QUIT, EXIT} \/ (Len(s) >= Len(Q) /\ SubSeq(s, 1, Len(Q)) = Q)
  THEN "quit"
  ELSE IF s = HELP THEN "help"
  ELSE IF s = LIST THEN "list"
  ELSE IF s = STATUS THEN "status"
  ELSE IF s = DEBUG THEN "debug"
  ELSE IF s = CLEAR THEN "clear"
  ELSE "query"

\* The branch of process_command taken for a raw input line.
Dispatch(user_input) ==
  LET s == Strip(user_input) IN
  IF s = <<>> THEN "noop"
  ELSE IF s \in {QUIT, EXIT, Q} THEN "quit"
  ELSE IF s = HELP THEN "help"
  ELSE IF s = LIST THEN "list"
  ELSE IF s = STATUS THEN "status"
  ELSE IF s = DEBUG THEN "debug"
  ELSE IF s = CLEAR THEN "clear"
  ELSE "query"

\* Variant of ToggleDebug that switches the mode on.
ToggleDebug_SetsOn(show_steps) == TRUE

\* The new value of show_react_steps on /debug (line 248).
ToggleDebug(show_steps) == ~show_steps

\* The f-string of query_agent: fixed head, the question, fixed rules.
PromptHead == <<"Q", ":">>
PromptRules == <<"\n", "R">>

\* Variant of EnhancedPrompt that sends the question as it was typed.
EnhancedPrompt_Raw(question) == question

EnhancedPrompt(question) == PromptHead \o question \o PromptRules

\* ---- the environment variable ----
\* os.getenv gives None when the variable is unset, else its value.
EnvValues ==
  { [set |-> FALSE, value |-> <<>>],
    [set |-> TRUE, value |-> <<>>],
    [set |-> TRUE, value |-> <<"k">>] }

\* Variant of CheckApiKey that lets an unset variable pass.
CheckApiKey_NoneOk(v) == ~v.set \/ v.value /= <<>>

\* `not os.getenv(...)`: None and "" are both falsy.
CheckApiKey(v) == v.set /\ v.value /= <<>>

\* ---- content blocks and messages ----
TextBlock(t) == [kind |-> "Text", body |-> t]
ToolUseBlock(n) == [kind |-> "ToolUse", body |-> n]
ToolResultBlock(c) == [kind |-> "ToolResult", body |-> c]

TextA == TextBlock(<<"a">>)
TextBC == TextBlock(<<"b", "c">>)
TextLong == TextBlock(Rep("t", PreviewLimit + 1))
ToolUseX == ToolUseBlock(<<"x">>)
ResultAtLimit == ToolResultBlock(Rep("y", PreviewLimit))
ResultOverLimit == ToolResultBlock(Rep("y", PreviewLimit + 1))

\* What the remote can send as the content of one AssistantMessage: the
\* same blocks alone, paired and all in one message, text before and after
\* tool blocks.
Contents ==
  { <<TextA>>, <<TextBC>>, <<TextA, TextBC>>, <<TextLong>>,
    <<ToolUseX>>, <<ResultAtLimit>>,
    <<TextA, ToolUseX>>, <<ResultOverLimit, TextBC>>,
    <<TextA, ToolUseX, ResultOverLimit, TextBC>> }

\* A message is an AssistantMessage with content, a message of another
\* class (SystemMessage, UserMessage), or the ResultMessage that ends a
\* response.  qid is the query the remote sent it for.
AssistantMessage(q, c) == [qid |-> q, type |-> "assistant", content |-> c]
OtherMessage(q) == [qid |-> q, type |-> "other", content |-> <<>>]
ResultMessage(q) == [qid |-> q, type |-> "result", content |-> <<>>]

\* ---- failures ----
\* str(e) of an exception raised by query() or by the stream, as words.
Sig1 == <<"exceeded", "maximum", "buffer", "size">>
Sig2 == <<"JSON", "message", "exceeded">>
ErrMsgs ==
  { <<"x">> \o Sig1, Sig2 \o <<"x">>, <<"exceeded", "buffer">>, <<>> }

\* `needle in hay` for strings.
Infix(needle, hay) ==
  \E i \in 0..(Len(hay) - Len(needle)) :
     SubSeq(hay, i + 1, i + Len(needle)) = needle

\* The branch of the except clause of query_agent.
Classify(error_msg) ==
  IF Infix(Sig1, error_msg) \/ Infix(Sig2, error_msg)
  THEN "OversizedPayload" ELSE "GenericQueryFailure"


\* ---- one iteration of `for block in message.content` ----
Ellipsis == <<".", ".", ".">>

\* Variant of ResultPreview that also cuts a content of exactly
\* PreviewLimit characters.
ResultPreview_AtLimit(content) ==
  IF Len(content) >= PreviewLimit
  THEN SubSeq(content, 1, PreviewLimit) \o Ellipsis
  ELSE content

\* result_preview of a ToolResultBlock (lines 334-336).
ResultPreview(content) ==
  IF Len(content) > PreviewLimit
  THEN SubSeq(content, 1, PreviewLimit) \o Ellipsis
  ELSE content

\* Variant of ProcessBlock that puts a new Text block in front of the
\* buffer.
ProcessBlock_Prepend(st, block, show_steps) ==
  IF block.kind = "Text"
  THEN [st EXCEPT !.response_text = block.body \o st.response_text]
  ELSE IF block.kind = "ToolUse" /\ show_steps
  THEN [st EXCEPT !.tool_use_count = st.tool_use_count + 1,
                  !.panels = st.panels + 1]
  ELSE IF block.kind = "ToolResult" /\ show_steps
  THEN [st EXCEPT !.previews = st.previews + 1,
                  !.last_preview = ResultPreview(block.body)]
  ELSE st

\* Variant of ProcessBlock that counts a ToolUse block whether or not the
\* steps are shown.
ProcessBlock_CountsAlways(st, block, show_steps) ==
  IF block.kind = "Text"
  THEN [st EXCEPT !.response_text = st.response_text \o block.body]
  ELSE IF block.kind = "ToolUse"
  THEN [st EXCEPT !.tool_use_count = st.tool_use_count + 1,
                  !.panels = st.panels + (IF show_steps THEN 1 ELSE 0)]
  ELSE IF block.kind = "ToolResult" /\ show_steps
  THEN [st EXCEPT !.previews = st.previews + 1,
                  !.last_preview = ResultPreview(block.body)]
  ELSE st

\* Variant of ProcessBlock that also adds the preview of a tool result to
\* the answer when the steps are shown.
ProcessBlock_DebugText(st, block, show_steps) ==
  IF block.kind = "Text"
  THEN [st EXCEPT !.response_text = st.response_text \o block.body]
  ELSE IF block.kind = "ToolUse" /\ show_steps
  THEN [st EXCEPT !.tool_use_count = st.tool_use_count + 1,
                  !.panels = st.panels + 1]
  ELSE IF block.kind = "ToolResult" /\ show_steps
  THEN [st EXCEPT !.previews = st.previews + 1,
                  !.last_preview = ResultPreview(block.body),
                  !.response_text =
                     st.response_text \o ResultPreview(block.body)]
  ELSE st

\* st holds the locals of query_agent and what the loop has printed.
ProcessBlock(st, block, show_steps) ==
  IF block.kind = "Text"
  THEN [st EXCEPT !.response_text = st.response_text \o block.body]
  ELSE IF block.kind = "ToolUse" /\ show_steps
  THEN [st EXCEPT !.tool_use_count = st.tool_use_count + 1,
                  !.panels = st.panels + 1]
  ELSE IF block.kind = "ToolResult" /\ show_steps
  THEN [st EXCEPT !.previews = st.previews + 1,
                  !.last_preview = ResultPreview(block.body)]
  ELSE st

RECURSIVE ProcessBlocks(_, _, _)
ProcessBlocks(st, content, show_steps) ==
  IF content = <<>> THEN st
  ELSE ProcessBlocks(ProcessBlock(st, Head(content), show_steps),
                     Tail(content), show_steps)

\* The body of `async for message in ...` for one message (lines 313-345).
ProcessMessage(st, message, show_steps) ==
  IF message.type = "assistant"
  THEN ProcessBlocks(st, message.content, show_steps)
  ELSE st

\* The locals of query_agent as lines 309-310 set them.
FreshLocals ==
  [response_text |-> <<>>, tool_use_count |-> 0,
   panels |-> 0, previews |-> 0, last_preview |-> <<>>]

\* Variant of FinalRender that prints nothing for an empty answer.
FinalRender_Silent(response_text) ==
  IF response_text /= <<>>
  THEN [kind |-> "answer", text |-> response_text]
  ELSE [kind |-> "none", text |-> <<>>]

\* What lines 348-355 print once the loop is over.
FinalRender(response_text) ==
  IF response_text /= <<>>
  THEN [kind |-> "answer", text |-> response_text]
  ELSE [kind |-> "notice", text |-> <<>>]

NoRender == [kind |-> "none", text |-> <<>>]

\* No tool block has been delivered: number of ToolUse and ToolResult
\* blocks, and the content of the last ToolResult block.
NoTools == [uses |-> 0, results |-> 0, last_result |-> <<>>]

\* Variant of FinallyDisconnects with the test on self.agent inverted.
FinallyDisconnects_Inverted(agent_, session_active_) ==
  agent_ = "None" /\ session_active_

\* The guard of the finally block of run() (line 415).
FinallyDisconnects(agent_, session_active_) ==
  agent_ /= "None" /\ session_active_

VARIABLES
  pc,               \* where the program is suspended
  env_key,          \* ANTHROPIC_API_KEY in the environment
  agent,            \* self.agent: "None" or "client"
  session_active,   \* self.session_active
  show_react_steps, \* self.show_react_steps
  locals,           \* response_text, tool_use_count and the debug output
  rendered,         \* the final answer or notice printed for the current query
  remediation,      \* printed by an except clause since the last line read
  welcome_shown,    \* show_welcome() has printed
  prompt_shown,     \* the main prompt has been displayed
  confirm_prompts,  \* number of exit questions displayed
  sent_prompt,      \* the argument of the query() call in progress
  conn,             \* the remote's view of the session
  connect_calls,    \* calls of connect()
  disconnect_calls, \* calls of disconnect()
  queries,          \* calls of query() the remote accepted
  remote_queue,     \* queries whose response the remote has not finished
  remote_sent,      \* messages emitted for the head of remote_queue
  stream,           \* messages in flight, oldest first
  arrived_texts,    \* text of the Text blocks delivered to this query
  foreign,          \* a message of another query was delivered to this one
  failed_stream,    \* an earlier query failed while its stream was read
  interrupted_at,   \* where the last KeyboardInterrupt of the loop was raised
  confirm_reply,    \* the reply to the exit question last asked
  raised,           \* query() or the stream raised since the last line was read
  exit_cause,       \* why the loop was left
  exit_code,        \* status of the terminated process
  last_line,        \* <<line>> while the line last read is being processed
  last_effect,      \* the branch of process_command run for the last line
  debug_before,     \* show_react_steps before the last line was read
  renders,          \* final renderings printed for the current query
  arrived_tools,    \* tool blocks delivered to the current query
  shadow_text,      \* response_text as the other debug setting gives it
  count_before      \* tool_use_count of the previous call when query() returned

vars ==
  << pc, env_key, agent, session_active, show_react_steps, locals, rendered,
     remediation, welcome_shown, prompt_shown, confirm_prompts, sent_prompt,
     conn, connect_calls, disconnect_calls, queries, remote_queue,
     remote_sent, stream, arrived_texts, foreign, failed_stream,
     interrupted_at, confirm_reply, raised, exit_cause, exit_code,
     last_line, last_effect, debug_before, renders, arrived_tools,
     shadow_text, count_before >>

turnVars == << last_line, last_effect, debug_before >>
streamVars == << renders, arrived_tools, shadow_text, count_before >>

programVars ==
  << agent, session_active, show_react_steps, locals >>
consoleVars ==
  << rendered, remediation, welcome_shown, prompt_shown, confirm_prompts >>
remoteVars ==
  << sent_prompt, conn, connect_calls, disconnect_calls, queries,
     remote_queue, remote_sent, stream >>
historyVars ==
  << arrived_texts, foreign, failed_stream, interrupted_at, confirm_reply,
     raised, exit_cause, exit_code >>

\* __init__ (lines 37-41); nothing has run and nothing is connected.
Init ==
  /\ pc = "start"
  /\ env_key \in EnvValues
  /\ agent = "None"
  /\ session_active = FALSE
  /\ show_react_steps = FALSE
  /\ locals = FreshLocals
  /\ rendered = NoRender
  /\ remediation = "none"
  /\ welcome_shown = FALSE
  /\ prompt_shown = FALSE
  /\ confirm_prompts = 0
  /\ sent_prompt = <<>>
  /\ conn = "Disconnected"
  /\ connect_calls = 0
  /\ disconnect_calls = 0
  /\ queries = 0
  /\ remote_queue = <<>>
  /\ remote_sent = 0
  /\ stream = <<>>
  /\ arrived_texts = <<>>
  /\ foreign = FALSE
  /\ failed_stream = FALSE
  /\ interrupted_at = "none"
  /\ confirm_reply = "none"
  /\ raised = FALSE
  /\ exit_cause = "none"
  /\ exit_code = -1
  /\ last_line = <<>>
  /\ last_effect = "none"
  /\ debug_before = FALSE
  /\ renders = 0
  /\ arrived_tools = NoTools
  /\ shadow_text = <<>>
  /\ count_before = 0


\* The Text blocks of one delivered message, as a list of their strings.
RECURSIVE TextsOf(_)
TextsOf(content) ==
  IF content = <<>> THEN <<>>
  ELSE IF Head(content).kind = "Text"
       THEN <<Head(content).body>> \o TextsOf(Tail(content))
       ELSE TextsOf(Tail(content))

\* The tool blocks of one delivered message added to the count t.
RECURSIVE ToolsOf(_, _)
ToolsOf(t, content) ==
  IF content = <<>> THEN t
  ELSE IF Head(content).kind = "ToolUse"
       THEN ToolsOf([t EXCEPT !.uses = t.uses + 1], Tail(content))
  ELSE IF Head(content).kind = "ToolResult"
       THEN ToolsOf([t EXCEPT !.results = t.results + 1,
                              !.last_result = Head(content).body],
                    Tail(content))
  ELSE ToolsOf(t, Tail(content))

\* ---- startup: run() up to the first suspension (lines 378-386, 59-68) ----
Start ==
  /\ pc = "start"
  /\ IF ~CheckApiKey(env_key)
     THEN /\ remediation' = "MissingCredential"
          /\ pc' = "exited"
          /\ exit_cause' = "no_key"
          /\ exit_code' = 1
          /\ UNCHANGED << agent, welcome_shown, connect_calls >>
     ELSE /\ welcome_shown' = TRUE
          /\ agent' = "client"
          /\ connect_calls' = connect_calls + 1
          /\ pc' = "init"
          /\ UNCHANGED << remediation, exit_cause, exit_code >>
  /\ UNCHANGED << env_key, session_active, show_react_steps, locals, rendered,
                  prompt_shown, confirm_prompts, sent_prompt, conn,
                  disconnect_calls, queries, remote_queue, remote_sent,
                  stream, arrived_texts, foreign, failed_stream,
                  interrupted_at, confirm_reply, raised >>
  /\ UNCHANGED turnVars
  /\ UNCHANGED streamVars

\* connect() returns: lines 69-79, then line 388 and the first Prompt.ask.
ConnectOk ==
  /\ pc = "init"
  /\ session_active' = TRUE
  /\ conn' = "Connected"
  /\ prompt_shown' = TRUE
  /\ pc' = "input"
  /\ UNCHANGED << env_key, agent, show_react_steps, locals, rendered,
                  remediation, welcome_shown, confirm_prompts, sent_prompt,
                  connect_calls, disconnect_calls, queries, remote_queue,
                  remote_sent, stream >>
  /\ UNCHANGED historyVars
  /\ UNCHANGED turnVars
  /\ UNCHANGED streamVars

\* Variant of ConnectFail without sys.exit(1): run() goes on to its loop.
ConnectFail_Continues ==
  /\ pc = "init"
  /\ remediation' = "ConnectFailure"
  /\ prompt_shown' = TRUE
  /\ pc' = "input"
  /\ exit_cause' = "connect_failed"
  /\ UNCHANGED << env_key, rendered, welcome_shown, confirm_prompts,
                  arrived_texts, foreign, failed_stream, interrupted_at,
                  confirm_reply, raised, exit_code >>
  /\ UNCHANGED programVars
  /\ UNCHANGED remoteVars
  /\ UNCHANGED turnVars
  /\ UNCHANGED streamVars

\* connect() raises: lines 80-82, sys.exit(1) leaves run() before its try.
ConnectFail ==
  /\ pc = "init"
  /\ remediation' = "ConnectFailure"
  /\ pc' = "exited"
  /\ exit_cause' = "connect_failed"
  /\ exit_code' = 1
  /\ UNCHANGED << env_key, rendered, welcome_shown, prompt_shown,
                  confirm_prompts, arrived_texts, foreign, failed_stream,
                  interrupted_at, confirm_reply, raised >>
  /\ UNCHANGED programVars
  /\ UNCHANGED remoteVars
  /\ UNCHANGED turnVars
  /\ UNCHANGED streamVars

\* ---- the main loop: Prompt.ask returns a line (lines 394-400, 223-261) ----
\* What the previous turn printed and what was delivered to it are
\* forgotten; of the previous call of query_agent only tool_use_count is
\* kept, until line 310 assigns it.
ReadLine(user_input) ==
  /\ pc = "input"
  /\ remediation' = "none"
  /\ raised' = FALSE
  /\ rendered' = NoRender
  /\ renders' = 0
  /\ arrived_texts' = <<>>
  /\ arrived_tools' = NoTools
  /\ foreign' = FALSE
  /\ shadow_text' = <<>>
  /\ count_before' = 0
  /\ locals' = [FreshLocals EXCEPT !.tool_use_count = locals.tool_use_count]
  /\ last_line' = <<user_input>>
  /\ last_effect' = Dispatch(user_input)
  /\ debug_before' = show_react_steps
  /\ LET cmd == Dispatch(user_input) IN
     CASE cmd = "quit" ->
            /\ pc' = "finally"
            /\ exit_cause' = "quit"
            /\ UNCHANGED << show_react_steps, sent_prompt >>
       [] cmd = "debug" ->
            /\ show_react_steps' = ToggleDebug(show_react_steps)
            /\ UNCHANGED << pc, exit_cause, sent_prompt >>
       [] cmd = "query" ->
            /\ queries < MaxQueries
            /\ sent_prompt' = EnhancedPrompt(Strip(user_input))
            /\ pc' = "query"
            /\ UNCHANGED << show_react_steps, exit_cause >>
       [] OTHER ->
            UNCHANGED << pc, exit_cause, show_react_steps, sent_prompt >>
  /\ UNCHANGED << env_key, agent, session_active, welcome_shown,
                  prompt_shown, confirm_prompts, conn, connect_calls,
                  disconnect_calls, queries, remote_queue, remote_sent,
                  stream, failed_stream, interrupted_at, confirm_reply,
                  exit_code >>

\* Variant of InputFault in which the Exception leaves the loop.
InputFault_Escapes ==
  /\ pc = "input"
  /\ remediation' = "LoopError"
  /\ exit_cause' = "fault"
  /\ pc' = "finally"
  /\ UNCHANGED << env_key, rendered, welcome_shown, prompt_shown,
                  confirm_prompts, arrived_texts, foreign, failed_stream,
                  interrupted_at, confirm_reply, raised, exit_code >>
  /\ UNCHANGED programVars
  /\ UNCHANGED remoteVars
  /\ UNCHANGED turnVars
  /\ UNCHANGED streamVars

\* Prompt.ask of the main loop raises an Exception such as EOFError
\* (lines 411-412): reported, and the loop goes on.
InputFault ==
  /\ pc = "input"
  /\ remediation' = "LoopError"
  /\ UNCHANGED << pc, env_key, rendered, welcome_shown, prompt_shown,
                  confirm_prompts >>
  /\ UNCHANGED programVars
  /\ UNCHANGED remoteVars
  /\ UNCHANGED historyVars
  /\ UNCHANGED turnVars
  /\ UNCHANGED streamVars

\* A local command raises an Exception while it prints (show_help,
\* list_customers, show_status, os.system): lines 411-412 report it and the loop goes on.
CommandFault(user_input) ==
  /\ pc = "input"
  /\ Dispatch(user_input) \in {"help", "list", "status", "clear"}
  /\ remediation' = "LoopError"
  /\ raised' = FALSE
  /\ rendered' = NoRender
  /\ renders' = 0
  /\ arrived_texts' = <<>>
  /\ arrived_tools' = NoTools
  /\ foreign' = FALSE
  /\ shadow_text' = <<>>
  /\ count_before' = 0
  /\ locals' = [FreshLocals EXCEPT !.tool_use_count = locals.tool_use_count]
  /\ last_line' = <<user_input>>
  /\ last_effect' = Dispatch(user_input)
  /\ debug_before' = show_react_steps
  /\ UNCHANGED << pc, env_key, agent, session_active, show_react_steps,
                  welcome_shown, prompt_shown, confirm_prompts, failed_stream,
                  interrupted_at, confirm_reply, exit_cause, exit_code >>
  /\ UNCHANGED remoteVars

\* ---- query_agent ----
\* Variant of QueryOk without line 310: the count goes on from the last one.
QueryOk_KeepsCount ==
  /\ pc = "query"
  /\ queries' = queries + 1
  /\ remote_queue' = Append(remote_queue, queries + 1)
  /\ sent_prompt' = <<>>
  /\ locals' = [FreshLocals EXCEPT !.tool_use_count = locals.tool_use_count]
  /\ pc' = "stream"
  /\ last_line' = <<>>
  /\ shadow_text' = <<>>
  /\ count_before' = locals.tool_use_count
  /\ UNCHANGED << env_key, agent, session_active, show_react_steps, conn,
                  connect_calls, disconnect_calls, remote_sent, stream >>
  /\ UNCHANGED consoleVars
  /\ UNCHANGED historyVars
  /\ UNCHANGED << last_effect, debug_before, renders, arrived_tools >>

\* query() returns (lines 306-312): the remote owes one more response and
\* the locals are set.
QueryOk ==
  /\ pc = "query"
  /\ queries' = queries + 1
  /\ remote_queue' = Append(remote_queue, queries + 1)
  /\ sent_prompt' = <<>>
  /\ locals' = FreshLocals
  /\ pc' = "stream"
  /\ last_line' = <<>>
  /\ shadow_text' = <<>>
  /\ count_before' = locals.tool_use_count
  /\ UNCHANGED << env_key, agent, session_active, show_react_steps, conn,
                  connect_calls, disconnect_calls, remote_sent, stream >>
  /\ UNCHANGED consoleVars
  /\ UNCHANGED historyVars
  /\ UNCHANGED << last_effect, debug_before, renders, arrived_tools >>

\* Variant of HandleQueryError that catches only the oversized-payload
\* failures; the others reach `except Exception` of run().
HandleQueryError_Narrow(error_msg) ==
  /\ remediation' = (IF Classify(error_msg) = "OversizedPayload"
                     THEN "OversizedPayload" ELSE "LoopError")
  /\ pc' = "input"

\* The except clause of query_agent (lines 361-374), then back in run().
HandleQueryError(error_msg) ==
  /\ remediation' = Classify(error_msg)
  /\ pc' = "input"

\* query() raises an Exception.
QueryRaises(error_msg) ==
  /\ pc = "query"
  /\ HandleQueryError(error_msg)
  /\ sent_prompt' = <<>>
  /\ raised' = TRUE
  /\ UNCHANGED << env_key, rendered, welcome_shown, prompt_shown,
                  confirm_prompts, conn, connect_calls, disconnect_calls,
                  queries, remote_queue, remote_sent, stream >>
  /\ UNCHANGED programVars
  /\ UNCHANGED << arrived_texts, foreign, failed_stream, interrupted_at,
                  confirm_reply, exit_cause, exit_code >>
  /\ last_line' = <<>>
  /\ UNCHANGED << last_effect, debug_before >>
  /\ UNCHANGED streamVars

\* The stream raises an Exception while it is read; what the remote has
\* sent or still sends of this response stays in the connection.
StreamRaises(error_msg) ==
  /\ pc = "stream"
  /\ HandleQueryError(error_msg)
  /\ failed_stream' = TRUE
  /\ raised' = TRUE
  /\ UNCHANGED << env_key, rendered, welcome_shown, prompt_shown,
                  confirm_prompts, arrived_texts, foreign,
                  interrupted_at, confirm_reply, exit_cause, exit_code >>
  /\ UNCHANGED programVars
  /\ UNCHANGED remoteVars
  /\ UNCHANGED turnVars
  /\ UNCHANGED streamVars

\* The stream delivers a message that is not the ResultMessage
\* (lines 312-345).
ReceiveMessage ==
  /\ pc = "stream"
  /\ stream /= <<>>
  /\ Head(stream).type /= "result"
  /\ locals' = ProcessMessage(locals, Head(stream), show_react_steps)
  /\ stream' = Tail(stream)
  /\ arrived_texts' = arrived_texts \o TextsOf(Head(stream).content)
  /\ foreign' = (foreign \/ Head(stream).qid /= queries)
  /\ UNCHANGED << pc, env_key, agent, session_active, show_react_steps,
                  sent_prompt, conn, connect_calls, disconnect_calls,
                  queries, remote_queue, remote_sent, failed_stream,
                  interrupted_at, confirm_reply, raised, exit_cause,
                  exit_code >>
  /\ UNCHANGED consoleVars
  /\ arrived_tools' = ToolsOf(arrived_tools, Head(stream).content)
  /\ shadow_text' =
       ProcessMessage([FreshLocals EXCEPT !.response_text = shadow_text],
                      Head(stream), ~show_react_steps).response_text
  /\ UNCHANGED << renders, count_before >>
  /\ UNCHANGED turnVars

\* Variant of ReceiveResult that goes on reading after the ResultMessage,
\* as receive_messages() would.
ReceiveResult_KeepsWaiting ==
  /\ pc = "stream"
  /\ stream /= <<>>
  /\ Head(stream).type = "result"
  /\ stream' = Tail(stream)
  /\ foreign' = (foreign \/ Head(stream).qid /= queries)
  /\ UNCHANGED << pc, env_key, sent_prompt, conn, connect_calls,
                  disconnect_calls, queries, remote_queue, remote_sent,
                  arrived_texts, failed_stream, interrupted_at,
                  confirm_reply, raised, exit_cause, exit_code >>
  /\ UNCHANGED programVars
  /\ UNCHANGED consoleVars
  /\ UNCHANGED turnVars
  /\ UNCHANGED streamVars

\* The stream delivers a ResultMessage: the loop ends, the answer is
\* printed (lines 347-359) and process_command returns True.
ReceiveResult ==
  /\ pc = "stream"
  /\ stream /= <<>>
  /\ Head(stream).type = "result"
  /\ stream' = Tail(stream)
  /\ rendered' = FinalRender(locals.response_text)
  /\ renders' = renders + 1
  /\ foreign' = (foreign \/ Head(stream).qid /= queries)
  /\ pc' = "input"
  /\ UNCHANGED << env_key, remediation, welcome_shown, prompt_shown,
                  confirm_prompts, sent_prompt, conn, connect_calls,
                  disconnect_calls, queries, remote_queue, remote_sent,
                  arrived_texts, failed_stream, interrupted_at,
                  confirm_reply, raised, exit_cause, exit_code >>
  /\ UNCHANGED programVars
  /\ UNCHANGED << arrived_tools, shadow_text, count_before >>
  /\ UNCHANGED turnVars

\* ---- interrupts (lines 402-410) ----
\* A KeyboardInterrupt raised inside the inner try of the loop: in
\* Prompt.ask, or in process_command, where query_agent's
\* `except Exception` does not catch it.  The exit question is asked.
Interrupt ==
  /\ pc \in {"input", "query", "stream"}
  /\ confirm_prompts < MaxConfirms
  /\ confirm_prompts' = confirm_prompts + 1
  /\ interrupted_at' = pc
  /\ confirm_reply' = "none"
  /\ sent_prompt' = <<>>
  /\ pc' = "confirm"
  /\ UNCHANGED << env_key, rendered, remediation, welcome_shown,
                  prompt_shown, arrived_texts, foreign, failed_stream,
                  exit_cause, exit_code, raised, conn, connect_calls,
                  disconnect_calls, queries, remote_queue, remote_sent,
                  stream >>
  /\ UNCHANGED programVars
  /\ last_line' = <<>>
  /\ UNCHANGED << last_effect, debug_before >>
  /\ UNCHANGED streamVars

\* Variant of Confirm with the test of the reply inverted.
Confirm_Inverted(reply) ==
  /\ pc = "confirm"
  /\ LET confirm == IF reply = "" THEN "n" ELSE reply IN
     /\ confirm_reply' = confirm
     /\ IF confirm /= "y"
        THEN pc' = "finally" /\ exit_cause' = "confirm_y"
        ELSE pc' = "input" /\ UNCHANGED exit_cause
  /\ UNCHANGED << env_key, arrived_texts, foreign, failed_stream,
                  interrupted_at, raised, exit_code >>
  /\ UNCHANGED programVars
  /\ UNCHANGED consoleVars
  /\ UNCHANGED remoteVars
  /\ UNCHANGED turnVars
  /\ UNCHANGED streamVars

\* The reply to the exit question (lines 405-407); an empty reply is the
\* default "n".
Confirm(reply) ==
  /\ pc = "confirm"
  /\ LET confirm == IF reply = "" THEN "n" ELSE reply IN
     /\ confirm_reply' = confirm
     /\ IF confirm = "y"
        THEN pc' = "finally" /\ exit_cause' = "confirm_y"
        ELSE pc' = "input" /\ UNCHANGED exit_cause
  /\ UNCHANGED << env_key, arrived_texts, foreign, failed_stream,
                  interrupted_at, raised, exit_code >>
  /\ UNCHANGED programVars
  /\ UNCHANGED consoleVars
  /\ UNCHANGED remoteVars
  /\ UNCHANGED turnVars
  /\ UNCHANGED streamVars

\* Variant of ConfirmInterrupt that goes round the loop instead of leaving it.
ConfirmInterrupt_Continues ==
  /\ pc = "confirm"
  /\ confirm_reply' = "interrupt"
  /\ pc' = "input"
  /\ UNCHANGED << env_key, arrived_texts, foreign, failed_stream,
                  interrupted_at, raised, exit_cause, exit_code >>
  /\ UNCHANGED programVars
  /\ UNCHANGED consoleVars
  /\ UNCHANGED remoteVars
  /\ UNCHANGED turnVars
  /\ UNCHANGED streamVars

\* A KeyboardInterrupt during the exit question (lines 408-410).
ConfirmInterrupt ==
  /\ pc = "confirm"
  /\ confirm_reply' = "interrupt"
  /\ exit_cause' = "second_interrupt"
  /\ pc' = "finally"
  /\ UNCHANGED << env_key, arrived_texts, foreign, failed_stream,
                  interrupted_at, raised, exit_code >>
  /\ UNCHANGED programVars
  /\ UNCHANGED consoleVars
  /\ UNCHANGED remoteVars
  /\ UNCHANGED turnVars
  /\ UNCHANGED streamVars

\* An Exception (EOFError) during the exit question: raised inside the
\* `except KeyboardInterrupt` clause, so no clause of the loop catches it.
ConfirmFault ==
  /\ pc = "confirm"
  /\ confirm_reply' = "fault"
  /\ exit_cause' = "fault"
  /\ pc' = "finally"
  /\ UNCHANGED << env_key, arrived_texts, foreign, failed_stream,
                  interrupted_at, raised, exit_code >>
  /\ UNCHANGED programVars
  /\ UNCHANGED consoleVars
  /\ UNCHANGED remoteVars
  /\ UNCHANGED turnVars
  /\ UNCHANGED streamVars

\* ---- the finally block of run() (lines 413-418), then the process ends --
Finally ==
  /\ pc = "finally"
  /\ IF FinallyDisconnects(agent, session_active)
     THEN /\ disconnect_calls' = disconnect_calls + 1
          /\ conn' = "Disconnected"
     ELSE UNCHANGED << disconnect_calls, conn >>
  /\ exit_code' = (IF exit_cause = "fault" THEN 1 ELSE 0)
  /\ pc' = "exited"
  /\ UNCHANGED << env_key, sent_prompt, connect_calls, queries,
                  remote_queue, remote_sent, stream, arrived_texts, foreign,
                  failed_stream, interrupted_at, confirm_reply, raised,
                  exit_cause >>
  /\ UNCHANGED programVars
  /\ UNCHANGED consoleVars
  /\ UNCHANGED turnVars
  /\ UNCHANGED streamVars

\* ---- the remote agent service ----
\* It sends one more message of the oldest unfinished response.
RemoteEmitMessage(message) ==
  /\ conn = "Connected"
  /\ remote_queue /= <<>>
  /\ Len(stream) < MaxStream
  /\ remote_sent < MaxMsgs
  /\ message.qid = Head(remote_queue)
  /\ stream' = Append(stream, message)
  /\ remote_sent' = remote_sent + 1
  /\ UNCHANGED << pc, env_key, sent_prompt, conn, connect_calls,
                  disconnect_calls, queries, remote_queue >>
  /\ UNCHANGED programVars
  /\ UNCHANGED consoleVars
  /\ UNCHANGED historyVars
  /\ UNCHANGED turnVars
  /\ UNCHANGED streamVars

\* It ends the oldest unfinished response with its ResultMessage.
RemoteEmitResult ==
  /\ conn = "Connected"
  /\ remote_queue /= <<>>
  /\ Len(stream) < MaxStream
  /\ stream' = Append(stream, ResultMessage(Head(remote_queue)))
  /\ remote_queue' = Tail(remote_queue)
  /\ remote_sent' = 0
  /\ UNCHANGED << pc, env_key, sent_prompt, conn, connect_calls,
                  disconnect_calls, queries >>
  /\ UNCHANGED programVars
  /\ UNCHANGED consoleVars
  /\ UNCHANGED historyVars
  /\ UNCHANGED turnVars
  /\ UNCHANGED streamVars

RemoteMessages ==
  {AssistantMessage(q, c) : q \in 1..MaxQueries, c \in Contents}
    \cup {OtherMessage(q) : q \in 1..MaxQueries}

Next ==
  \/ Start
  \/ ConnectOk
  \/ ConnectFail
  \/ \E user_input \in Lines : ReadLine(user_input)
  \/ InputFault
  \/ \E user_input \in Lines : CommandFault(user_input)
  \/ QueryOk
  \/ \E error_msg \in ErrMsgs : QueryRaises(error_msg)
  \/ \E error_msg \in ErrMsgs : StreamRaises(error_msg)
  \/ ReceiveMessage
  \/ ReceiveResult
  \/ Interrupt
  \/ \E reply \in {"y", "n", ""} : Confirm(reply)
  \/ ConfirmInterrupt
  \/ ConfirmFault
  \/ Finally
  \/ \E message \in RemoteMessages : RemoteEmitMessage(message)
  \/ RemoteEmitResult

Spec == Init /\ [][Next]_vars

\* The same program when every awaited call ends: query() returns or
\* raises, the remote goes on sending until the ResultMessage, a delivered
\* message is processed, and the finally block runs.  The user's lines and
\* interrupts and the failures are under no obligation.
FairSpec ==
  /\ Spec
  /\ WF_vars(QueryOk \/ \E error_msg \in ErrMsgs : QueryRaises(error_msg))
  /\ WF_vars(RemoteEmitResult
               \/ \E message \in RemoteMessages : RemoteEmitMessage(message))
  /\ WF_vars(ReceiveMessage)
  /\ WF_vars(ReceiveResult)
  /\ WF_vars(Finally)

TypeOK ==
  /\ pc \in {"start", "init", "input", "query", "stream", "confirm",
             "finally", "exited"}
  /\ disconnect_calls \in 0..1
  /\ Len(stream) <= MaxStream


\* ------------------------------------------------------------------------
\* C1: once connect() has succeeded, disconnect() is called exactly once on
\* every way out of the loop of run() (quit token, exit question answered
\* "y", second interrupt, escaping fault): never before the loop is left,
\* once when the process has ended, never twice.
C1_DisconnectExactlyOnce ==
  /\ disconnect_calls <= 1
  /\ (session_active /\ pc \in {"input", "query", "stream", "confirm",
                                "finally"}) => disconnect_calls = 0
  /\ (session_active /\ pc = "exited") =>
        /\ exit_cause \in {"quit", "confirm_y", "second_interrupt", "fault"}
        /\ disconnect_calls = 1

C1_ExitedAfterFault ==
  pc = "exited" /\ exit_cause = "fault" /\ disconnect_calls = 1

\* C6: when the first connect() fails the process ends with status 1, the
\* main prompt was never displayed and disconnect() was never called; and
\* whenever the main prompt is displayed the session is connected.
C6_ConnectFailureIsFatal ==
  /\ exit_cause = "connect_failed" =>
        /\ pc = "exited"
        /\ exit_code = 1
        /\ ~prompt_shown
        /\ disconnect_calls = 0
  /\ (pc = "input" \/ prompt_shown) =>
        /\ session_active
        /\ agent = "client"
        /\ pc = "input" => conn = "Connected"

C6_ExitedAfterConnectFailure ==
  pc = "exited" /\ exit_cause = "connect_failed" /\ connect_calls = 1

\* C7: when ANTHROPIC_API_KEY is not in the environment the process ends
\* with status 1, neither the welcome text nor the main prompt is printed
\* and connect() is never called.
C7_MissingCredentialIsFatal ==
  ~env_key.set =>
     /\ pc \in {"start", "exited"}
     /\ pc = "exited" => exit_code = 1
     /\ ~welcome_shown
     /\ ~prompt_shown
     /\ connect_calls = 0

C7_ExitedWithoutCredential ==
  pc = "exited" /\ ~env_key.set /\ remediation = "MissingCredential"


\* Concatenation of a list of strings, and the number of responses the
\* remote has been asked for whose ResultMessage has not been read; both
\* are used by the properties below.
RECURSIVE Flatten(_)
Flatten(texts) ==
  IF texts = <<>> THEN <<>> ELSE Head(texts) \o Flatten(Tail(texts))

Unfinished ==
  Len(remote_queue)
    + Cardinality({i \in DOMAIN stream : stream[i].type = "result"})

\* C2: at most one query is in flight: query() is never called while the
\* response of an earlier query has not reached its ResultMessage, also
\* after a query failed or was interrupted while its stream was read.
C2_OneQueryInFlight ==
  /\ Unfinished <= 1
  /\ pc = "query" => Unfinished = 0

\* C3: an interrupt raised while the response stream is read abandons the
\* rendering (no final answer for that query) and leads to disconnect; the
\* program does not come back to the main prompt.
C3_StreamInterruptLeavesLoop ==
  interrupted_at = "stream" =>
     /\ pc \notin {"input", "query", "stream"}
     /\ rendered.kind = "none"

\* C4: an Exception raised by query() or by the stream, whatever its
\* class, is caught inside query_agent: a remediation text is printed, the
\* loop is not left, disconnect() is not called, and the program is back at
\* the main prompt with the session connected.
C4_QueryFailureIsRecoverable ==
  [][ (~raised /\ raised') =>
        /\ pc \in {"query", "stream"}
        /\ pc' = "input"
        /\ remediation' \in {"OversizedPayload", "GenericQueryFailure"}
        /\ exit_cause' = "none"
        /\ disconnect_calls' = 0
        /\ conn' = "Connected"
        /\ session_active' /\ agent' = "client" ]_vars

C4_BackAtPromptAfterFailure ==
  /\ raised /\ failed_stream
  /\ pc = "input"
  /\ remediation = "OversizedPayload"
  /\ conn = "Connected" /\ disconnect_calls = 0

\* C5: after a query failed while its stream was read, the final answer
\* printed for a later query is made of the Text blocks of that query's own
\* response only; no message of the failed query's response is part of it.
C5_QueryAfterFailureIsCorrect ==
  (failed_stream /\ rendered.kind /= "none") =>
     /\ ~foreign
     /\ rendered.kind = "answer" => rendered.text = Flatten(arrived_texts)

\* C8: an interrupt at the main prompt asks the exit question once; the
\* reply "n" leads back to the main prompt with the session connected and
\* no disconnect; the reply "y" leaves the loop, after which disconnect()
\* is called once and the process ends.
C8_InterruptAsksOnce ==
  [][ /\ (pc = "input" /\ pc' = "confirm") =>
            confirm_prompts' = confirm_prompts + 1
      /\ pc = "confirm" => confirm_prompts' = confirm_prompts
      /\ (pc = "confirm" /\ confirm_reply' = "n") =>
            /\ pc' = "input"
            /\ exit_cause' = "none"
            /\ disconnect_calls' = 0
            /\ conn' = "Connected" /\ session_active'
      /\ (pc = "confirm" /\ confirm_reply' = "y") =>
            /\ pc' = "finally"
            /\ exit_cause' = "confirm_y"
      /\ (pc = "finally" /\ pc' /= "finally" /\ exit_cause = "confirm_y") =>
            /\ pc' = "exited"
            /\ disconnect_calls = 0 /\ disconnect_calls' = 1 ]_vars

C8_LineDispatchedAfterDenial ==
  /\ interrupted_at = "input" /\ confirm_reply = "n"
  /\ confirm_prompts = 1
  /\ pc = "stream"
  /\ disconnect_calls = 0

\* C9: a second interrupt, raised while the exit question is pending, ends
\* the loop without asking again, and disconnect() is then called.
C9_SecondInterruptExits ==
  [][ /\ (pc = "confirm" /\ confirm_reply' = "interrupt") =>
            /\ pc' = "finally"
            /\ exit_cause' = "second_interrupt"
            /\ confirm_prompts' = confirm_prompts
      /\ exit_cause = "second_interrupt" =>
            /\ pc' \in {"finally", "exited"}
            /\ confirm_prompts' = confirm_prompts
      /\ (pc = "finally" /\ pc' /= "finally"
            /\ exit_cause = "second_interrupt") =>
            /\ pc' = "exited"
            /\ disconnect_calls = 0 /\ disconnect_calls' = 1 ]_vars

C9_ExitedAfterSecondInterrupt ==
  /\ pc = "exited" /\ exit_cause = "second_interrupt"
  /\ confirm_reply = "interrupt"
  /\ disconnect_calls = 1

\* C10: the final answer printed for a query is the concatenation, in
\* order of arrival, of the Text blocks delivered to it, however they are
\* grouped into messages and whatever tool blocks lie between them.
C10_AnswerIsConcatenation ==
  /\ pc = "stream" => locals.response_text = Flatten(arrived_texts)
  /\ rendered.kind = "answer" =>
        rendered.text = Flatten(arrived_texts) /\ rendered.text /= <<>>
  /\ rendered.kind = "notice" => Flatten(arrived_texts) = <<>>

C10_InterleavedAnswer ==
  /\ rendered.kind = "answer"
  /\ arrived_texts = << <<"a">>, <<"b", "c">> >>
  /\ rendered.text = <<"a", "b", "c">>
  /\ locals.panels = 1 /\ locals.previews = 1
  /\ ~foreign

\* C11: the answer of a query is printed at most once, by the step that
\* takes the ResultMessage off the stream and by no other; nothing is
\* printed as the answer while query() or the stream is awaited; and when
\* the buffer is empty at that step the notice is printed, not nothing.
C11_AnswerRenderedOnceAtCompletion ==
  /\ [](renders <= 1)
  /\ [](pc \in {"query", "stream"} => rendered = NoRender /\ renders = 0)
  /\ [][ /\ (rendered' /= rendered /\ rendered'.kind /= "none") =>
              /\ pc = "stream"
              /\ stream /= <<>>
              /\ Head(stream).type = "result"
              /\ renders' = 1
              /\ pc' = "input"
         /\ (pc = "stream" /\ pc' = "input" /\ ~raised') =>
              /\ Head(stream).type = "result"
              /\ renders' = 1
              /\ locals.response_text = <<>> =>
                    rendered' = [kind |-> "notice", text |-> <<>>]
              /\ locals.response_text /= <<>> =>
                    rendered' = [kind |-> "answer",
                                 text |-> locals.response_text] ]_vars

C11_NoticeForToolOnlyStream ==
  /\ pc = "input"
  /\ rendered.kind = "notice"
  /\ renders = 1
  /\ arrived_tools.uses >= 1
  /\ arrived_texts = <<>>

\* The effect the recognised tokens have, for a trimmed line t.
C12_Effect(t) ==
  CASE t = <<>> -> "noop"
    [] t = <<"/", "q", "u", "i", "t">> -> "quit"
    [] t = <<"/", "e", "x", "i", "t">> -> "quit"
    [] t = <<"/", "q">> -> "quit"
    [] t = <<"/", "h", "e", "l", "p">> -> "help"
    [] t = <<"/", "l", "i", "s", "t">> -> "list"
    [] t = <<"/", "s", "t", "a", "t", "u", "s">> -> "status"
    [] t = <<"/", "d", "e", "b", "u", "g">> -> "debug"
    [] t = <<"/", "c", "l", "e", "a", "r">> -> "clear"
    [] OTHER -> "query"

\* C12: the line last read, trimmed, had the effect of the token it is
\* equal to: a quit token left the loop, a local command or an empty line
\* left the program at the prompt with no query() call, and every other
\* line was sent as a query.
C12_DispatchIsExactMatch ==
  last_line /= <<>> =>
    LET t == Strip(last_line[1]) IN
    /\ last_effect = C12_Effect(t)
    /\ last_effect = "quit" =>
          pc \in {"finally", "exited"} /\ exit_cause = "quit"
    /\ last_effect \in {"noop", "help", "list", "status", "debug", "clear"} =>
          pc = "input" /\ sent_prompt = <<>>
    /\ last_effect = "query" => pc = "query" /\ sent_prompt /= <<>>

C12_NearTokenSentAsQuery ==
  /\ pc = "query"
  /\ last_line = << <<"/", "Q", "u", "i", "t">> >>
  /\ sent_prompt /= <<>>

\* C13: show_react_steps changes only in the step that reads /debug at the
\* main prompt; that step inverts it; and when the line read before was
\* /debug too, the step gives it back the value it had before that line.
C13_DebugIsAnInvolution ==
  [][ LET reads_debug ==
            /\ pc = "input"
            /\ last_line' /= <<>>
            /\ Strip(last_line'[1]) = DEBUG
            /\ \/ last_effect /= "debug"
               \/ debug_before' /= debug_before
               \/ show_react_steps' /= show_react_steps
      IN
      /\ show_react_steps' /= show_react_steps => reads_debug /\ pc' = "input"
      /\ reads_debug =>
            /\ debug_before' = show_react_steps
            /\ show_react_steps' = ~show_react_steps
      /\ (reads_debug /\ last_effect = "debug") =>
            show_react_steps' = debug_before ]_vars

C13_DebugRestoredToOff ==
  /\ last_line /= <<>>
  /\ last_effect = "debug"
  /\ debug_before
  /\ ~show_react_steps

\* C14: while a stream is read and when its answer has been printed, with
\* the steps hidden nothing was shown and the count is 0; with the steps
\* shown there is one panel and one increment for each ToolUse block
\* delivered and one preview, without increment, for each ToolResult block
\* delivered.
C14_ToolStepsFollowDebugMode ==
  (pc = "stream" \/ rendered.kind /= "none") =>
    IF show_react_steps
    THEN /\ locals.tool_use_count = arrived_tools.uses
         /\ locals.panels = arrived_tools.uses
         /\ locals.previews = arrived_tools.results
    ELSE /\ locals.tool_use_count = 0
         /\ locals.panels = 0
         /\ locals.previews = 0

C14_TwoInvocationsCounted ==
  /\ show_react_steps
  /\ rendered.kind /= "none"
  /\ locals.tool_use_count = 2
  /\ locals.previews = 1

\* C15: the buffer built from the delivered messages is the one the other
\* setting of show_react_steps builds from them, and so is the answer
\* printed.
C15_AnswerIndependentOfDebug ==
  /\ pc = "stream" => locals.response_text = shadow_text
  /\ rendered.kind = "answer" => rendered.text = shadow_text
  /\ rendered.kind = "notice" => shadow_text = <<>>

C15_AnswerWithStepsShown ==
  /\ show_react_steps
  /\ rendered.kind = "answer"
  /\ locals.previews >= 1
  /\ locals.panels >= 1
  /\ rendered.text = shadow_text

\* C16: when query() returns, tool_use_count is 0 whatever the previous
\* call of query_agent left, and it is 0 as long as no ToolUse block has
\* been delivered to the query.
C16_CountStartsAtZero ==
  /\ [][(pc = "query" /\ pc' = "stream") => locals'.tool_use_count = 0]_vars
  /\ []((pc = "stream" /\ arrived_tools.uses = 0) =>
           locals.tool_use_count = 0)

C16_FreshCountAfterCountedQuery ==
  /\ pc = "stream"
  /\ count_before >= 1
  /\ locals.tool_use_count = 0

\* The preview of a ToolResult content, by its length.
C17_Preview(content) ==
  IF Len(content) > 200
  THEN [i \in 1..203 |-> IF i <= 200 THEN content[i] ELSE "."]
  ELSE content

RECURSIVE C17_TotalLen(_)
C17_TotalLen(texts) ==
  IF texts = <<>> THEN 0 ELSE Len(Head(texts)) + C17_TotalLen(Tail(texts))

\* C17: with the steps shown, the preview last printed is the content of
\* the last ToolResult block delivered when that has at most 200 characters,
\* and its first 200 characters followed by "..." (203 in all) when it has
\* more; the buffer and the answer printed have the full length of the Text
\* blocks delivered.
C17_PreviewCutAtLimit ==
  /\ (show_react_steps /\ (pc = "stream" \/ rendered.kind /= "none")
        /\ arrived_tools.results > 0) =>
       /\ locals.last_preview = C17_Preview(arrived_tools.last_result)
       /\ Len(arrived_tools.last_result) > 200 =>
             Len(locals.last_preview) = 203
       /\ Len(arrived_tools.last_result) <= 200 =>
             Len(locals.last_preview) = Len(arrived_tools.last_result)
  /\ pc = "stream" =>
       Len(locals.response_text) = C17_TotalLen(arrived_texts)
  /\ rendered.kind = "answer" =>
       Len(rendered.text) = C17_TotalLen(arrived_texts)

C17_LongResultAndLongAnswer ==
  /\ show_react_steps
  /\ rendered.kind = "answer"
  /\ Len(rendered.text) > 200
  /\ Len(arrived_tools.last_result) = 201
  /\ Len(locals.last_preview) = 203

\* C18 (as stated): every turn of a free-text query, the remote stream
\* being finite, comes back to the main prompt with the session connected.
C18_TurnReturnsToPrompt ==
  (pc \in {"query", "stream"}) ~> (pc = "input" /\ conn = "Connected")

\* C18 (amended): a turn comes back to the main prompt with the session
\* connected unless an interrupt is raised during it, which leads to the
\* exit question; and the session stays connected, with no disconnect(),
\* for the whole turn.
C18_TurnReturnsUnlessInterrupted ==
  /\ (pc \in {"query", "stream"}) ~>
        \/ pc = "input" /\ conn = "Connected"
        \/ pc = "confirm" /\ interrupted_at \in {"query", "stream"}
  /\ [](pc \in {"query", "stream"} =>
          conn = "Connected" /\ session_active /\ disconnect_calls = 0)

C18_TurnBackAtPrompt ==
  /\ pc = "input"
  /\ last_effect = "query"
  /\ renders = 1
  /\ conn = "Connected"
  /\ queries = 2

\* C19: while query() is awaited its argument is the template around the
\* trimmed line last read, once: the fixed head, the line, the fixed rules,
\* and nothing else; it is a function of that line alone.
C19_PromptWrappedOnce ==
  pc = "query" =>
    /\ last_line /= <<>>
    /\ LET question == Strip(last_line[1]) IN
       /\ sent_prompt = PromptHead \o question \o PromptRules
       /\ sent_prompt /= question
       /\ Len(sent_prompt) = Len(PromptHead) + Len(question) + Len(PromptRules)

C19_SecondQueryWithStepsShown ==
  /\ pc = "query"
  /\ queries = 1
  /\ show_react_steps
  /\ last_line = << <<"h", "i">> >>
  /\ sent_prompt = <<"Q", ":", "h", "i", "\n", "R">>

\* C20 (as stated): after a successful connect the loop is left only by a
\* quit token, by the exit question answered "y" or by a second interrupt.
C20_LoopLeftOnlyOnRequest ==
  (session_active /\ pc \in {"finally", "exited"}) =>
     exit_cause \in {"quit", "confirm_y", "second_interrupt"}

\* C20 (amended): the loop is left only by a quit token read at the main
\* prompt or, at the exit question, by the reply "y", a second interrupt or
\* a fault; a step at the main prompt that is no interrupt and reports a
\* fault leaves the program at the main prompt, connected, with no
\* disconnect().
C20_FaultAtPromptKeepsLoop ==
  [][ /\ (pc \in {"input", "query", "stream", "confirm"} /\ pc' = "finally") =>
           \/ pc = "input" /\ last_effect' = "quit" /\ exit_cause' = "quit"
           \/ /\ pc = "confirm"
              /\ confirm_reply' \in {"y", "interrupt", "fault"}
              /\ exit_cause' \in {"confirm_y", "second_interrupt", "fault"}
      /\ (pc = "input" /\ remediation' = "LoopError"
            /\ confirm_prompts' = confirm_prompts) =>
           /\ pc' = "input"
           /\ exit_cause' = "none"
           /\ conn' = "Connected"
           /\ disconnect_calls' = 0 ]_vars

C20_FaultReportedAtPrompt ==
  /\ pc = "input"
  /\ remediation = "LoopError"
  /\ last_line /= <<>>
  /\ disconnect_calls = 0

====
